---- MODULE Spec2Model ----
(***************************************************************************)
(* Model of the agent session client, frontend/src/hooks/useAgentSession.js *)
(*                                                                         *)
(* The hook is single-threaded and event driven: every action below is one *)
(* callback run to completion (a public call, a WebSocket event, a timer,  *)
(* a fetch completion).  React state (status, messages, terminalLogs,      *)
(* activeFile, error) and refs (wsRef, heartbeatRef, reconnectCount,       *)
(* sessionIdRef) are the variables.  The WebSocket objects the hook        *)
(* creates are kept in the sequence sockets, one record per `new           *)
(* WebSocket`, with the browser's readyState.                              *)
(*                                                                         *)
(* A text is a sequence of tokens (characters or whole words); the empty   *)
(* sequence is the empty string.  JavaScript's undefined/null/'' are all   *)
(* falsy and are all the empty sequence here.  Entry ids and timestamps    *)
(* (uid(), Date.now()) are left out: they never influence control flow.    *)
(***************************************************************************)
EXTENDS Integers, Sequences, FiniteSets, TLC

VARIABLES
    status,          \* useState('idle'): idle | connecting | connected | error
    error,           \* useState(null): a text, <<>> for null
    messages,        \* chat transcript: sequence of [type, content]
    terminalLogs,    \* terminal log: sequence of [line, arg]
    activeFile,      \* useState(null): NoFile or [path, content, loading]
    wsRef,           \* wsRef.current: index into sockets, 0 for null
    heartbeatRef,    \* heartbeatRef.current: TRUE while the interval is set
    reconnectCount,  \* reconnectCount.current
    sessionIdRef,    \* sessionIdRef.current: a text, <<>> for null
    sockets,         \* every WebSocket created so far, in creation order
    timers,          \* pending setTimeout(() => connect(initialTask), 2000)
    sent,            \* frames written with ws.send, in order
    fetches,         \* every file read issued by selectFile, with its completion
    files,           \* useState([]): the flat file list, a sequence of paths
    fileTree,        \* useState([]): the file tree, a sequence of nodes
    threw,           \* history: the latest handleEvent call threw an exception
    nFrames,         \* history: number of inbound frames dispatched so far
    unmounted,       \* the effect cleanup has run
    nCalls,          \* history: number of public calls so far
    lastCall,        \* history: the latest public call
    lastText         \* history: latest non-empty text given to startSession/sendMessage

connVars == <<status, error, wsRef, heartbeatRef, reconnectCount, sockets, timers, sent>>
projVars == <<messages, terminalLogs>>
fileVars == <<activeFile, fetches, sessionIdRef>>
histVars == <<unmounted, nCalls, lastCall, lastText>>
dispVars == <<files, fileTree, threw, nFrames>>
vars == <<connVars, projVars, fileVars, histVars, dispVars>>

(***************************************************************************)
(* Bounds of the exploration.                                              *)
(***************************************************************************)
MaxWork == 11
MaxFetches == 3

(***************************************************************************)
(* Program constants.                                                      *)
(***************************************************************************)
MAX_RECONNECTS == 3
NormalCodesMut == {1000, 4001}
NormalCodes == {1000, 4001, 4010}
AbnormalCodes == {1006}
ConnLost == <<"Connection lost after multiple attempts.">>
Null == <<>>
NoFile == [path |-> <<>>, content |-> <<>>, loading |-> FALSE, present |-> FALSE]

(***************************************************************************)
(* Inputs.                                                                 *)
(***************************************************************************)
StartTasks == {<<>>, <<"a">>}
SendTexts == {<<>>, <<" ">>, <<" ", "b", " ">>}
Reasons == {<<>>, <<"bye">>}
Paths == {<<>>, <<"a.txt">>, <<"b.txt">>}
Contents == {<<>>, <<"x">>}
Details == {<<>>, <<"denied">>}

(***************************************************************************)
(* String.prototype.trim on a text: drop leading and trailing blanks.      *)
(***************************************************************************)
RECURSIVE TrimStart(_)
TrimStart(t) == IF t # <<>> /\ Head(t) = " " THEN TrimStart(Tail(t)) ELSE t

RECURSIVE TrimEnd(_)
TrimEnd(t) ==
    IF t # <<>> /\ t[Len(t)] = " " THEN TrimEnd(SubSeq(t, 1, Len(t) - 1)) ELSE t

TrimMut(t) == t
Trim(t) == TrimEnd(TrimStart(t))

CodeStr(c) ==
    CASE c = 1000 -> <<"1000">>
      [] c = 4001 -> <<"4001">>
      [] c = 4010 -> <<"4010">>
      [] c = 1006 -> <<"1006">>
      [] OTHER -> <<"?">>

CountStr(n) ==
    CASE n = 0 -> <<"0">> [] n = 1 -> <<"1">> [] n = 2 -> <<"2">>
      [] n = 3 -> <<"3">> [] OTHER -> <<"n">>

(***************************************************************************)
(* pushMessage / pushLog: append at the end.                               *)
(***************************************************************************)
Msg(type, content) == [type |-> type, content |-> content]
Log(line, arg) == [line |-> line, arg |-> arg]

pushMessage(seq, type, content) == Append(seq, Msg(type, content))
pushLogMut(seq, line, arg) == <<Log(line, arg)>> \o seq
pushLog(seq, line, arg) == Append(seq, Log(line, arg))

(***************************************************************************)
(* The browser's WebSocket.                                                *)
(***************************************************************************)
NewSocket(task, origin, parent) ==
    [state |-> "CONNECTING", task |-> task, origin |-> origin, parent |-> parent,
     opened |-> FALSE, remote |-> FALSE, closes |-> 0, code |-> 0]

IsOpen(i) == i # 0 /\ sockets[i].state = "OPEN"
IsLive(i) == i # 0 /\ sockets[i].state \in {"OPEN", "CONNECTING"}
LiveSockets == {i \in 1..Len(sockets) : sockets[i].state \in {"OPEN", "CONNECTING"}}

\* ws.close(1000, reason): an OPEN or CONNECTING socket goes to CLOSING
WsClose(socks, i) ==
    [socks EXCEPT ![i] = [@ EXCEPT !.state = IF @ \in {"OPEN", "CONNECTING"}
                                              THEN "CLOSING" ELSE @,
                                   !.closes = @ + 1]]

\* The close codes the browser can report for socket i.  A socket that never
\* opened (connection failure, or close() while CONNECTING) always reports
\* 1006; one closed by the client alone reports the code of its close
\* handshake or 1006 if the connection drops first; a close started by the
\* server may carry any code.
CloseCodes(i) ==
    IF ~sockets[i].opened THEN AbnormalCodes
    ELSE IF sockets[i].state = "CLOSING" /\ ~sockets[i].remote
         THEN {1000} \cup AbnormalCodes
         ELSE NormalCodes \cup AbnormalCodes

Frame(ws, type, content) == [ws |-> ws, type |-> type, content |-> content]

Init ==
    /\ status = "idle"
    /\ error = Null
    /\ messages = <<>>
    /\ terminalLogs = <<>>
    /\ activeFile = NoFile
    /\ wsRef = 0
    /\ heartbeatRef = FALSE
    /\ reconnectCount = 0
    /\ sessionIdRef = Null
    /\ sockets = <<>>
    /\ timers = <<>>
    /\ sent = <<>>
    /\ fetches = <<>>
    /\ files = <<>>
    /\ fileTree = <<>>
    /\ threw = FALSE
    /\ nFrames = 0
    /\ unmounted = FALSE
    /\ nCalls = 0
    /\ lastCall = "none"
    /\ lastText = <<>>

\* The exploration budget: a behaviour is extended while its terminal-log
\* lines, its heartbeat pings, its file reads, twice its public calls and
\* twice its inbound frames stay below MaxWork.
Pings == {k \in 1..Len(sent) : sent[k].type = "ping"}
Work ==
    Len(terminalLogs) + Cardinality(Pings) + 2 * nCalls + 2 * nFrames + Len(fetches)
Room == Work < MaxWork

(***************************************************************************)
(* Decisions of the hook, one definition each.                             *)
(***************************************************************************)
\* connect: "Prevent double-connect" (the early return)
AlreadyLive == IsLive(wsRef)

\* startSession, sendMessage: wsRef.current?.readyState === WebSocket.OPEN
TransportOpen == IsOpen(wsRef)

\* ws.onclose: reconnectCount.current < MAX_RECONNECTS
CanReconnectMut(count) == count <= MAX_RECONNECTS
CanReconnect(count) == count < MAX_RECONNECTS

\* ws.onclose: [1000, 4001, 4010].includes(event.code)
IsNormalCloseMut(code) == code \in NormalCodesMut
IsNormalClose(code) == code \in NormalCodes

\* ws.onclose: setTimeout(() => connect(initialTask), 2000)
ReconnectTaskMut(i) == <<>>
ReconnectTask(i) == sockets[i].task

\* ws.onopen: task: initialTask || ''
HandshakeTaskMut(i) == lastText
HandshakeTask(i) == sockets[i].task

(***************************************************************************)
(* connect(initialTask).  origin and parent record who called it: a public *)
(* call, or the reconnect timer armed by the close of socket parent.       *)
(***************************************************************************)
connect(initialTask, origin, parent) ==
    IF AlreadyLive
    THEN UNCHANGED <<status, error, terminalLogs, sockets, wsRef>>
    ELSE /\ status' = "connecting"
         /\ error' = Null
         /\ terminalLogs' = pushLog(terminalLogs, "Connecting to AI Engine", <<>>)
         /\ sockets' = Append(sockets, NewSocket(initialTask, origin, parent))
         /\ wsRef' = Len(sockets) + 1

(***************************************************************************)
(* sendMessageInternal(text)                                               *)
(***************************************************************************)
sendMessageInternalMut(text) ==
    IF ~TransportOpen
    THEN /\ terminalLogs' = pushLog(terminalLogs, "Not connected - cannot send message", <<>>)
         /\ UNCHANGED <<sent, messages>>
    ELSE /\ sent' = Append(sent, Frame(wsRef, "action", text))
         /\ messages' = pushMessage(pushMessage(messages, "user", text), "user", text)
         /\ terminalLogs' = pushLog(terminalLogs, "->", text)
sendMessageInternal(text) ==
    IF ~TransportOpen
    THEN /\ terminalLogs' = pushLog(terminalLogs, "Not connected - cannot send message", <<>>)
         /\ UNCHANGED <<sent, messages>>
    ELSE /\ sent' = Append(sent, Frame(wsRef, "action", text))
         /\ messages' = pushMessage(messages, "user", text)
         /\ terminalLogs' = pushLog(terminalLogs, "->", text)

(***************************************************************************)
(* startSession(task): the body shared by the public call and sendMessage. *)
(***************************************************************************)
startSessionBody(task) ==
    IF TransportOpen
    THEN /\ IF task # <<>>
            THEN sendMessageInternal(task)
            ELSE UNCHANGED <<sent, messages, terminalLogs>>
         /\ UNCHANGED <<status, error, sockets, wsRef>>
    ELSE /\ messages' = IF task # <<>> THEN pushMessage(messages, "user", task)
                                       ELSE messages
         /\ connect(task, "user", 0)
         /\ UNCHANGED sent

Called(name, text) ==
    /\ ~unmounted
    /\ Room
    /\ nCalls' = nCalls + 1
    /\ lastCall' = name
    /\ lastText' = IF text # <<>> THEN text ELSE lastText
    /\ UNCHANGED unmounted

StartSession(task) ==
    /\ Called("start", task)
    /\ startSessionBody(task)
    /\ UNCHANGED <<heartbeatRef, reconnectCount, timers, fileVars, dispVars>>

SendMessage(text) ==
    IF Trim(text) = <<>>
    THEN /\ ~unmounted
         /\ lastCall' = "send"
         /\ UNCHANGED <<connVars, projVars, fileVars, dispVars, unmounted, nCalls, lastText>>
    ELSE /\ Called("send", Trim(text))
         /\ IF ~TransportOpen
            THEN startSessionBody(Trim(text))
            ELSE /\ sendMessageInternal(Trim(text))
                 /\ UNCHANGED <<status, error, sockets, wsRef>>
         /\ UNCHANGED <<heartbeatRef, reconnectCount, timers, fileVars, dispVars>>

(***************************************************************************)
(* stopSession()                                                           *)
(***************************************************************************)
StopLog(logs) == pushLog(logs, "Session stopped", <<>>)

StopSessionMut ==
    /\ Called("stop", <<>>)
    /\ IF wsRef = 0
       THEN UNCHANGED <<heartbeatRef, sockets, wsRef, status, terminalLogs>>
       ELSE /\ heartbeatRef' = FALSE
            /\ sockets' = WsClose(sockets, wsRef)
            /\ wsRef' = 0
            /\ status' = "idle"
            /\ terminalLogs' = StopLog(terminalLogs)
    /\ UNCHANGED <<error, reconnectCount, timers, sent, messages, fileVars, dispVars>>
StopSession ==
    /\ Called("stop", <<>>)
    /\ heartbeatRef' = FALSE
    /\ sockets' = IF wsRef # 0 THEN WsClose(sockets, wsRef) ELSE sockets
    /\ wsRef' = 0
    /\ status' = "idle"
    /\ terminalLogs' = StopLog(terminalLogs)
    /\ UNCHANGED <<error, reconnectCount, timers, sent, messages, fileVars, dispVars>>

(***************************************************************************)
(* Cleanup on unmount.  Timers and socket callbacks already registered     *)
(* keep running afterwards; public calls are no longer possible.           *)
(***************************************************************************)
Unmount ==
    /\ ~unmounted
    /\ unmounted' = TRUE
    /\ lastCall' = "unmount"
    /\ heartbeatRef' = FALSE
    /\ sockets' = IF wsRef # 0 THEN WsClose(sockets, wsRef) ELSE sockets
    /\ wsRef' = 0
    /\ UNCHANGED <<status, error, reconnectCount, timers, sent, projVars, fileVars, dispVars,
                   nCalls, lastText>>

(***************************************************************************)
(* ws.onopen of socket i                                                   *)
(***************************************************************************)
OnOpenMut(i) ==
    /\ Room
    /\ sockets[i].state = "CONNECTING"
    /\ sockets' = [sockets EXCEPT ![i] = [@ EXCEPT !.state = "OPEN", !.opened = TRUE]]
    /\ status' = "connected"
    /\ reconnectCount' = 0
    /\ heartbeatRef' = TRUE
    /\ sent' = IF sockets[i].task # <<>>
               THEN Append(sent, Frame(i, "handshake", HandshakeTask(i)))
               ELSE sent
    /\ terminalLogs' =
          LET l1 == pushLog(terminalLogs, "Connected", <<>>)
          IN IF sockets[i].task # <<>>
             THEN pushLog(l1, "Task sent", sockets[i].task)
             ELSE l1
    /\ UNCHANGED <<error, wsRef, timers, messages, fileVars, dispVars, histVars>>
OnOpen(i) ==
    /\ Room
    /\ sockets[i].state = "CONNECTING"
    /\ sockets' = [sockets EXCEPT ![i] = [@ EXCEPT !.state = "OPEN", !.opened = TRUE]]
    /\ status' = "connected"
    /\ reconnectCount' = 0
    /\ heartbeatRef' = TRUE
    /\ sent' = Append(sent, Frame(i, "handshake", HandshakeTask(i)))
    /\ terminalLogs' =
          LET l1 == pushLog(terminalLogs, "Connected", <<>>)
          IN IF sockets[i].task # <<>>
             THEN pushLog(l1, "Task sent", sockets[i].task)
             ELSE l1
    /\ UNCHANGED <<error, wsRef, timers, messages, fileVars, dispVars, histVars>>

(***************************************************************************)
(* The server starts the closing handshake of socket i: the browser sets   *)
(* readyState to CLOSING in a task of its own, before the task that fires  *)
(* `close`.  No handler of the hook runs, but its readyState tests see it. *)
(***************************************************************************)
BeginClose(i) ==
    /\ sockets[i].state = "OPEN"
    /\ sockets' = [sockets EXCEPT ![i] = [@ EXCEPT !.state = "CLOSING", !.remote = TRUE]]
    /\ UNCHANGED <<status, error, wsRef, heartbeatRef, reconnectCount, timers, sent,
                   projVars, fileVars, dispVars, histVars>>

(***************************************************************************)
(* ws.onerror.  The browser fires `error` only when it fails the           *)
(* connection, in the same task as, and right before, the `close` event of *)
(* that socket: onerror(logs) is the log the close handler then starts     *)
(* from.                                                                   *)
(***************************************************************************)
onerror(logs) == pushLog(logs, "WebSocket error", <<>>)

(***************************************************************************)
(* ws.onclose of socket i with event.code and event.reason; failed tells   *)
(* whether the browser failed the connection and fired `error` first.      *)
(***************************************************************************)
onclose(i, code, reason, failed) ==
    /\ sockets[i].state \in {"CONNECTING", "OPEN", "CLOSING"}
    /\ code \in CloseCodes(i)
    /\ failed => code \in AbnormalCodes
    /\ sockets' = [sockets EXCEPT ![i] = [@ EXCEPT !.state = "CLOSED", !.code = code]]
    /\ wsRef' = 0
    /\ heartbeatRef' = FALSE
    /\ LET logs == IF failed THEN onerror(terminalLogs) ELSE terminalLogs
       IN IF IsNormalClose(code)
          THEN /\ status' = "idle"
               /\ terminalLogs' = pushLog(logs, "Session ended",
                                          IF reason # <<>> THEN reason ELSE CodeStr(code))
               /\ UNCHANGED <<error, reconnectCount, timers>>
          ELSE IF CanReconnect(reconnectCount)
               THEN /\ reconnectCount' = reconnectCount + 1
                    /\ terminalLogs' = pushLog(logs, "Reconnecting",
                                               CountStr(reconnectCount + 1))
                    /\ timers' = Append(timers, [task |-> ReconnectTask(i), from |-> i])
                    /\ UNCHANGED <<status, error>>
               ELSE /\ status' = "error"
                    /\ error' = ConnLost
                    /\ terminalLogs' = pushLog(logs, "Connection lost", <<>>)
                    /\ UNCHANGED <<reconnectCount, timers>>
    /\ UNCHANGED <<sent, messages, fileVars, dispVars, histVars>>

OnClose(i, code, reason, failed) == Room /\ onclose(i, code, reason, failed)

(***************************************************************************)
(* The reconnect timeout fires: connect(initialTask).  All timeouts have   *)
(* the same delay, so they fire in the order they were armed.              *)
(***************************************************************************)
TimerFiresMut ==
    /\ timers # <<>>
    /\ timers' = Tail(timers)
    /\ UNCHANGED <<status, error, terminalLogs, sockets, wsRef, heartbeatRef,
                   reconnectCount, sent, messages, fileVars, dispVars, histVars>>
TimerFires ==
    /\ timers # <<>>
    /\ connect(Head(timers).task, "timer", Head(timers).from)
    /\ timers' = Tail(timers)
    /\ UNCHANGED <<heartbeatRef, reconnectCount, sent, messages, fileVars, dispVars, histVars>>

ReconnectTimer == Room /\ TimerFires

(***************************************************************************)
(* The heartbeat interval fires.                                           *)
(***************************************************************************)
HeartbeatTick ==
    /\ Room
    /\ heartbeatRef
    /\ sent' = IF IsOpen(wsRef) THEN Append(sent, Frame(wsRef, "ping", <<>>)) ELSE sent
    /\ UNCHANGED <<status, error, wsRef, heartbeatRef, reconnectCount, sockets, timers,
                   projVars, fileVars, dispVars, histVars>>

(***************************************************************************)
(* selectFile(path): the synchronous part up to `await fetch`, then one of *)
(* the two completions.                                                    *)
(***************************************************************************)
Optimistic(prev, path) ==
    [path |-> path,
     content |-> IF prev.present /\ prev.path = path THEN prev.content ELSE <<>>,
     loading |-> TRUE, present |-> TRUE]

\* success: setActiveFile({ path, content: data.content || '', loading: false })
OnSuccess(prev, path, content) ==
    [path |-> path, content |-> content, loading |-> FALSE, present |-> TRUE]

\* failure: only if prev?.path === path
ErrMessage(detail) == IF detail # <<>> THEN detail ELSE <<"HTTP 500">>
ErrorContent(detail) == <<"// Error loading file: ">> \o ErrMessage(detail)
OnFailureMut(prev, path, detail) ==
    [prev EXCEPT !.content = ErrorContent(detail), !.loading = FALSE]
OnFailure(prev, path, detail) ==
    IF prev.present /\ prev.path = path
    THEN [prev EXCEPT !.content = ErrorContent(detail), !.loading = FALSE]
    ELSE prev

Pending == {k \in 1..Len(fetches) : ~fetches[k].done}

SelectFile(path) ==
    /\ ~unmounted
    /\ IF path = <<>>
       THEN UNCHANGED <<activeFile, fetches>>
       ELSE /\ Len(fetches) < MaxFetches
            /\ activeFile' = Optimistic(activeFile, path)
            /\ fetches' = Append(fetches, [path |-> path, sessionId |-> sessionIdRef,
                                           done |-> FALSE])
    /\ UNCHANGED <<connVars, projVars, sessionIdRef, histVars, dispVars>>

\* res.ok: const data = await res.json(); data.content || ''
FetchOk(k, content) ==
    /\ k \in Pending
    /\ fetches' = [fetches EXCEPT ![k].done = TRUE]
    /\ activeFile' = OnSuccess(activeFile, fetches[k].path, content)
    /\ UNCHANGED <<connVars, projVars, sessionIdRef, histVars, dispVars>>

\* !res.ok or a rejected fetch: the catch block
FetchFail(k, detail) ==
    /\ Room
    /\ k \in Pending
    /\ fetches' = [fetches EXCEPT ![k].done = TRUE]
    /\ terminalLogs' = pushLog(terminalLogs, "Failed to read",
                               fetches[k].path \o ErrMessage(detail))
    /\ activeFile' = OnFailure(activeFile, fetches[k].path, detail)
    /\ UNCHANGED <<connVars, messages, sessionIdRef, histVars, dispVars>>

(***************************************************************************)
(* Inbound frames.  A JSON value read from a field is a tagged text: t is  *)
(* its JavaScript type and s its text (the digits of a number).  An array  *)
(* of paths and an array of tree nodes keep their items.  A tree node is   *)
(* an object with a name and children, or null.                            *)
(***************************************************************************)
J(t, s) == [t |-> t, s |-> s]
Undefined == J("undefined", <<>>)
Str(s) == J("string", s)
Num(s) == J("number", s)

NoList == [t |-> "undefined", items |-> <<>>]
Arr(items) == [t |-> "array", items |-> items]
StrList(s) == [t |-> "string", items |-> <<s>>]

NoTree == [t |-> "undefined", nodes |-> <<>>]
Tree(nodes) == [t |-> "array", nodes |-> nodes]
Node(name, children) == [kind |-> "object", name |-> name, children |-> children]
NullNode == [kind |-> "null", name |-> <<>>, children |-> <<>>]

\* JavaScript truthiness of a field value
Truthy(v) == \/ v.t = "string" /\ v.s # <<>>
             \/ v.t = "number" /\ v.s # <<"0">>

\* String(v), as a template literal renders a value
Text(v) == IF v.t \in {"undefined", "null"} THEN <<v.t>> ELSE v.s

\* a || b on field values
Or(a, b) == IF Truthy(a) THEN a ELSE b

\* Array.isArray
IsArray(l) == l.t = "array"

\* String.prototype.includes(word), on a text whose tokens are words
Includes(s, word) == \E k \in 1..Len(s) : s[k] = word

\* Array.prototype.includes(path)
Contains(list, path) == \E k \in 1..Len(list) : list[k] = path

\* Array.prototype.join(', ')
RECURSIVE Join(_)
Join(items) ==
    IF items = <<>> THEN <<>>
    ELSE IF Len(items) = 1 THEN items[1]
    ELSE items[1] \o <<", ">> \o Join(Tail(items))

\* The value JSON.parse returns: kind is the JSON type of the whole payload,
\* the other fields are the properties the dispatcher reads (absent ones are
\* undefined).
Obj(type) ==
    [kind |-> "object", type |-> Str(<<type>>), content |-> Undefined,
     message |-> Undefined, event |-> Undefined, eventType |-> Undefined,
     command |-> Undefined, path |-> Undefined, status |-> Undefined,
     sessionId |-> Undefined, files |-> NoList, fileTree |-> NoList,
     tree |-> NoTree]
Primitive(kind) == [Obj("") EXCEPT !.kind = kind, !.type = Undefined]

(***************************************************************************)
(* Inputs: the payloads the backend sends, each with its compact JSON text *)
(* (the text JSON.stringify gives back).                                   *)
(***************************************************************************)
TreeA == <<Node(<<"src">>, <<Node(<<"a.py">>, <<>>)>>), Node(<<"README">>, <<>>)>>
TreeB == <<Node(<<"b.py">>, <<>>)>>
TreeNull == <<NullNode>>

Wire ==
    { [text |-> "null", value |-> Primitive("null")],
      [text |-> "7", value |-> Primitive("number")],
      [text |-> "{\"type\":\"foo\"}", value |-> Obj("foo")],
      [text |-> "{\"type\":\"log\",\"content\":\"out\"}",
       value |-> [Obj("log") EXCEPT !.content = Str(<<"out">>)]],
      [text |-> "{\"type\":\"observation\",\"event\":\"agent_message\"}",
       value |-> [Obj("observation") EXCEPT !.event = Str(<<"agent_message">>)]],
      [text |-> "{\"type\":\"message\",\"content\":\"hi\"}",
       value |-> [Obj("message") EXCEPT !.content = Str(<<"hi">>)]],
      [text |-> "{\"type\":\"file_tree\",\"tree\":[{\"name\":\"src\",\"children\":[{\"name\":\"a.py\"}]},{\"name\":\"README\"}]}",
       value |-> [Obj("file_tree") EXCEPT !.tree = Tree(TreeA)]],
      [text |-> "{\"type\":\"file_tree\",\"tree\":[{\"name\":\"b.py\"}]}",
       value |-> [Obj("file_tree") EXCEPT !.tree = Tree(TreeB)]],
      [text |-> "{\"type\":\"file_tree\",\"tree\":[null]}",
       value |-> [Obj("file_tree") EXCEPT !.tree = Tree(TreeNull)]],
      [text |-> "{\"type\":\"file_tree\"}", value |-> Obj("file_tree")],
      [text |-> "{\"type\":\"file_change\",\"path\":\"a.py\"}",
       value |-> [Obj("file_change") EXCEPT !.path = Str(<<"a.py">>)]],
      [text |-> "{\"type\":\"file_change\",\"path\":\"b.py\"}",
       value |-> [Obj("file_change") EXCEPT !.path = Str(<<"b.py">>)]],
      [text |-> "{\"type\":\"file_change\",\"files\":[\"b.py\",\"a.py\"]}",
       value |-> [Obj("file_change") EXCEPT !.files = Arr(<< <<"b.py">>, <<"a.py">> >>)]],
      [text |-> "{\"type\":\"file_change\",\"files\":\"a.py\"}",
       value |-> [Obj("file_change") EXCEPT !.files = StrList(<<"a.py">>)]],
      [text |-> "{\"type\":\"file_change\"}", value |-> Obj("file_change")],
      [text |-> "{\"type\":\"agent_event\",\"eventType\":\"AgentMessageAction\",\"content\":\"Installing deps\",\"command\":\"npm install\"}",
       value |-> [Obj("agent_event") EXCEPT
                     !.eventType = Str(<<"Agent", "Message", "Action">>),
                     !.content = Str(<<"Installing deps">>),
                     !.command = Str(<<"npm install">>)]],
      [text |-> "{\"type\":\"agent_event\",\"event\":\"CmdRunAction\",\"content\":\"Installing deps\",\"command\":\"npm install\"}",
       value |-> [Obj("agent_event") EXCEPT
                     !.event = Str(<<"Cmd", "Run", "Action">>),
                     !.content = Str(<<"Installing deps">>),
                     !.command = Str(<<"npm install">>)]],
      [text |-> "{\"type\":\"agent_event\",\"eventType\":\"AgentThinkAction\",\"content\":\"hm\"}",
       value |-> [Obj("agent_event") EXCEPT
                     !.eventType = Str(<<"Agent", "Think", "Action">>),
                     !.content = Str(<<"hm">>)]],
      [text |-> "{\"type\":\"agent_event\",\"eventType\":5,\"content\":\"Installing deps\",\"command\":\"npm install\"}",
       value |-> [Obj("agent_event") EXCEPT
                     !.eventType = Num(<<"5">>),
                     !.content = Str(<<"Installing deps">>),
                     !.command = Str(<<"npm install">>)]],
      [text |-> "{\"type\":\"agent_event\",\"fileTree\":[\"c.py\"]}",
       value |-> [Obj("agent_event") EXCEPT !.fileTree = Arr(<< <<"c.py">> >>)]],
      [text |-> "{\"type\":\"status\",\"status\":\"ready\",\"sessionId\":\"s1\"}",
       value |-> [Obj("status") EXCEPT !.status = Str(<<"ready">>),
                                       !.sessionId = Str(<<"s1">>)]],
      [text |-> "{\"type\":\"status\",\"status\":\"busy\",\"message\":\"working\",\"sessionId\":\"s2\"}",
       value |-> [Obj("status") EXCEPT !.status = Str(<<"busy">>),
                                       !.message = Str(<<"working">>),
                                       !.sessionId = Str(<<"s2">>)]],
      [text |-> "{\"type\":\"complete\"}", value |-> Obj("complete")],
      [text |-> "{\"type\":\"error\",\"message\":\"OOM\"}",
       value |-> [Obj("error") EXCEPT !.message = Str(<<"OOM">>)]],
      [text |-> "{\"type\":\"pong\"}", value |-> Obj("pong")] }

\* what arrives in event.data: the compact texts, one of them with
\* insignificant white space around it, and a line that is not JSON
Raws ==
    {<<w.text>> : w \in Wire}
        \cup {<<" ", "{\"type\":\"foo\"}", " ">>}
        \cup {<<"npm", " ", "WARN">>}

(***************************************************************************)
(* JSON.parse and JSON.stringify.  White space around a JSON text is not   *)
(* part of the value; a text that is not JSON makes JSON.parse throw.      *)
(***************************************************************************)
IsJSON(raw) == Len(Trim(raw)) = 1 /\ \E w \in Wire : w.text = Trim(raw)[1]
JSONparse(raw) == (CHOOSE w \in Wire : w.text = Trim(raw)[1]).value
JSONstringify(msg) == <<(CHOOSE w \in Wire : w.value = msg).text>>

(***************************************************************************)
(* _countFiles(tree).  Reading node.children of a null node throws.        *)
(***************************************************************************)
RECURSIVE countFiles(_)
countFiles(tree) ==
    IF tree = <<>> THEN 0
    ELSE 1 + (IF Head(tree).children # <<>> THEN countFiles(Head(tree).children) ELSE 0)
           + countFiles(Tail(tree))

RECURSIVE countFilesThrows(_)
countFilesThrows(tree) ==
    \E k \in 1..Len(tree) :
        tree[k].kind = "null" \/ countFilesThrows(tree[k].children)

(***************************************************************************)
(* handleEvent(raw): one definition per case of the switch.  The variables *)
(* a case can write are status, error, messages, terminalLogs, files,      *)
(* fileTree and sessionIdRef; threw records an exception that leaves the   *)
(* handler, with the writes made before it kept.                           *)
(***************************************************************************)
TypeIs(msg, type) == msg.type = Str(<<type>>)

\* catch of JSON.parse: pushLog(raw)
caseNotJSON(raw) ==
    /\ terminalLogs' = pushLog(terminalLogs, "", raw)
    /\ threw' = FALSE
    /\ UNCHANGED <<status, error, messages, files, fileTree, sessionIdRef>>

\* switch (msg.type) on null: reading a property of null throws
caseNull ==
    /\ threw' = TRUE
    /\ UNCHANGED <<status, error, messages, terminalLogs, files, fileTree, sessionIdRef>>

\* case 'log', 'observation'.  pushMessage('agent', msg.content) stores the
\* field as it is: an absent content is stored as undefined, written here
\* as the text <<"undefined">>, which no payload carries as a string.
caseLog(msg) ==
    /\ terminalLogs' =
          pushLog(terminalLogs, "",
                  IF Truthy(msg.content) THEN Text(msg.content)
                  ELSE IF Truthy(msg.message) THEN Text(msg.message)
                  ELSE JSONstringify(msg))
    /\ messages' = IF msg.event \in {Str(<<"agent_message">>), Str(<<"AgentMessageAction">>)}
                   THEN pushMessage(messages, "agent", Text(msg.content))
                   ELSE messages
    /\ threw' = FALSE
    /\ UNCHANGED <<status, error, files, fileTree, sessionIdRef>>

\* case 'message'
caseMessage(msg) ==
    /\ messages' = pushMessage(messages, "agent", Text(Or(msg.content, Str(<<>>))))
    /\ threw' = FALSE
    /\ UNCHANGED <<status, error, terminalLogs, files, fileTree, sessionIdRef>>

\* case 'file_tree'
caseFileTreeMut(msg) ==
    /\ IF IsArray(msg.tree)
       THEN /\ fileTree' = fileTree \o msg.tree.nodes
            /\ IF countFilesThrows(msg.tree.nodes)
               THEN threw' = TRUE /\ UNCHANGED terminalLogs
               ELSE /\ threw' = FALSE
                    /\ terminalLogs' = pushLog(terminalLogs, "File tree updated",
                                               CountStr(countFiles(msg.tree.nodes)))
       ELSE threw' = FALSE /\ UNCHANGED <<fileTree, terminalLogs>>
    /\ UNCHANGED <<status, error, messages, files, sessionIdRef>>
caseFileTree(msg) ==
    /\ IF IsArray(msg.tree)
       THEN /\ fileTree' = msg.tree.nodes
            /\ IF countFilesThrows(msg.tree.nodes)
               THEN threw' = TRUE /\ UNCHANGED terminalLogs
               ELSE /\ threw' = FALSE
                    /\ terminalLogs' = pushLog(terminalLogs, "File tree updated",
                                               CountStr(countFiles(msg.tree.nodes)))
       ELSE threw' = FALSE /\ UNCHANGED <<fileTree, terminalLogs>>
    /\ UNCHANGED <<status, error, messages, files, sessionIdRef>>

\* case 'file_change': msg.path || msg.files?.join(', ') || 'unknown'; join
\* is not a function on a value that is neither an array nor null/undefined
ChangedThrows(msg) ==
    ~Truthy(msg.path) /\ msg.files.t \notin {"array", "undefined", "null"}
Changed(msg) ==
    IF Truthy(msg.path) THEN Text(msg.path)
    ELSE IF IsArray(msg.files) /\ Join(msg.files.items) # <<>> THEN Join(msg.files.items)
    ELSE <<"unknown">>

AddPathMut(prev, path) == Append(prev, path)
AddPath(prev, path) == IF Contains(prev, path) THEN prev ELSE Append(prev, path)

caseFileChange(msg) ==
    /\ files' = IF IsArray(msg.files) THEN msg.files.items
                ELSE IF Truthy(msg.path) THEN AddPath(files, Text(msg.path))
                ELSE files
    /\ IF ChangedThrows(msg)
       THEN threw' = TRUE /\ UNCHANGED terminalLogs
       ELSE /\ threw' = FALSE
            /\ terminalLogs' = pushLog(terminalLogs, "File changed", Changed(msg))
    /\ UNCHANGED <<status, error, messages, fileTree, sessionIdRef>>

\* case 'agent_event': eventType.includes throws when eventType is not a
\* string (nor an array)
EventType(msg) == Or(msg.eventType, Or(msg.event, Str(<<>>)))
IsChatKind(eventType) ==
    Includes(eventType.s, "Message") \/ Includes(eventType.s, "Think")

caseAgentEvent(msg) ==
    IF EventType(msg).t # "string"
    THEN /\ threw' = TRUE
         /\ UNCHANGED <<status, error, messages, terminalLogs, files, fileTree,
                        sessionIdRef>>
    ELSE LET content == Or(msg.content, Str(<<>>))
             l1 == IF Truthy(msg.command)
                   THEN pushLog(terminalLogs, "$", Text(msg.command))
                   ELSE terminalLogs
         IN /\ messages' = IF IsChatKind(EventType(msg))
                           THEN pushMessage(messages, "agent", Text(content))
                           ELSE messages
            /\ terminalLogs' = IF Truthy(content) THEN pushLog(l1, "", Text(content))
                               ELSE l1
            /\ files' = IF IsArray(msg.fileTree) THEN msg.fileTree.items ELSE files
            /\ threw' = FALSE
            /\ UNCHANGED <<status, error, fileTree, sessionIdRef>>

\* case 'status'
IsReadyMut(st) == st \in {Str(<<"ready">>), Str(<<"mock_mode">>), Str(<<"busy">>)}
IsReady(st) == st \in {Str(<<"ready">>), Str(<<"mock_mode">>)}

caseStatus(msg) ==
    /\ terminalLogs' = pushLog(terminalLogs, "[status]",
                               Text(msg.status) \o Text(Or(msg.message, Str(<<>>))))
    /\ sessionIdRef' = IF Truthy(msg.sessionId) THEN Text(msg.sessionId) ELSE sessionIdRef
    /\ IF IsReady(msg.status)
       THEN /\ status' = "connected"
            /\ messages' = pushMessage(messages, "system",
                                       Text(Or(msg.message, Str(<<"Agent is ready.">>))))
       ELSE UNCHANGED <<status, messages>>
    /\ threw' = FALSE
    /\ UNCHANGED <<error, files, fileTree>>

\* case 'complete'
caseComplete ==
    /\ messages' = pushMessage(messages, "system", <<"Agent task completed.">>)
    /\ terminalLogs' = pushLog(terminalLogs, "Task completed", <<>>)
    /\ threw' = FALSE
    /\ UNCHANGED <<status, error, files, fileTree, sessionIdRef>>

\* case 'error'
ErrMsg(msg) == Text(Or(msg.message, Str(<<"Unknown error">>)))
ErrStatusMut == "connected"
ErrStatus == "error"

caseError(msg) ==
    /\ error' = ErrMsg(msg)
    /\ status' = ErrStatus
    /\ messages' = pushMessage(messages, "system", <<"(!) ">> \o ErrMsg(msg))
    /\ terminalLogs' = pushLog(terminalLogs, "(x)", ErrMsg(msg))
    /\ threw' = FALSE
    /\ UNCHANGED <<files, fileTree, sessionIdRef>>

\* case 'pong', 'ack'
casePong ==
    /\ threw' = FALSE
    /\ UNCHANGED <<status, error, messages, terminalLogs, files, fileTree, sessionIdRef>>

\* default: pushLog(JSON.stringify(msg))
caseDefault(msg) ==
    /\ terminalLogs' = pushLog(terminalLogs, "", JSONstringify(msg))
    /\ threw' = FALSE
    /\ UNCHANGED <<status, error, messages, files, fileTree, sessionIdRef>>

handleEvent(raw) ==
    IF ~IsJSON(raw) THEN caseNotJSON(raw)
    ELSE LET msg == JSONparse(raw)
         IN IF msg.kind = "null" THEN caseNull
            ELSE IF TypeIs(msg, "log") \/ TypeIs(msg, "observation") THEN caseLog(msg)
            ELSE IF TypeIs(msg, "message") THEN caseMessage(msg)
            ELSE IF TypeIs(msg, "file_tree") THEN caseFileTree(msg)
            ELSE IF TypeIs(msg, "file_change") THEN caseFileChange(msg)
            ELSE IF TypeIs(msg, "agent_event") THEN caseAgentEvent(msg)
            ELSE IF TypeIs(msg, "status") THEN caseStatus(msg)
            ELSE IF TypeIs(msg, "complete") THEN caseComplete
            ELSE IF TypeIs(msg, "error") THEN caseError(msg)
            ELSE IF TypeIs(msg, "pong") \/ TypeIs(msg, "ack") THEN casePong
            ELSE caseDefault(msg)

(***************************************************************************)
(* ws.onmessage of socket i.  The browser fires `message` only while the   *)
(* socket's readyState is OPEN: a frame that arrives before the open or    *)
(* after either side began the closing handshake is dropped.               *)
(***************************************************************************)
OnMessage(i, raw) ==
    /\ sockets[i].state = "OPEN"
    /\ Room
    /\ nFrames' = nFrames + 1
    /\ handleEvent(raw)
    /\ UNCHANGED <<wsRef, heartbeatRef, reconnectCount, sockets, timers, sent,
                   activeFile, fetches, histVars>>

(***************************************************************************)
(* Specifications.  Spec is the connection manager with the outbound       *)
(* encoder; FileSpec is the side-channel file fetcher.                     *)
(***************************************************************************)
Next ==
    \/ \E task \in StartTasks : StartSession(task)
    \/ \E text \in SendTexts : SendMessage(text)
    \/ StopSession
    \/ Unmount
    \/ \E i \in 1..Len(sockets) : OnOpen(i)
    \/ \E i \in 1..Len(sockets) : BeginClose(i)
    \/ \E i \in 1..Len(sockets), code \in NormalCodes \cup AbnormalCodes,
          reason \in Reasons, failed \in BOOLEAN : OnClose(i, code, reason, failed)
    \/ ReconnectTimer
    \/ HeartbeatTick

Spec == Init /\ [][Next]_vars

FileNext ==
    \/ \E path \in Paths : SelectFile(path)
    \/ \E k \in 1..Len(fetches), content \in Contents : FetchOk(k, content)
    \/ \E k \in 1..Len(fetches), detail \in Details : FetchFail(k, detail)

FileSpec == Init /\ [][FileNext]_vars

\* DispatchSpec is one connection with the event dispatcher: the session is
\* started, the transport opens, frames arrive, the heartbeat ticks and
\* files are selected.
DispatchNext ==
    \/ \E task \in StartTasks : StartSession(task)
    \/ \E i \in 1..Len(sockets) : OnOpen(i)
    \/ \E i \in 1..Len(sockets), raw \in Raws : OnMessage(i, raw)
    \/ HeartbeatTick
    \/ \E path \in Paths : Room /\ SelectFile(path)

DispatchSpec == Init /\ [][DispatchNext]_vars

\* SessionSpec is the whole life of sessions seen from the backend side:
\* start and stop, open and close, reconnects, heartbeat, the status and
\* error frames, and file reads with their failures.
SessionRaws ==
    {raw \in Raws : IsJSON(raw) /\ (TypeIs(JSONparse(raw), "status")
                                      \/ TypeIs(JSONparse(raw), "error"))}
SessionPaths == {<<"a.txt">>, <<"b.txt">>}
SessionTasks == {<<"a">>}
SessionCodes == {1000} \cup AbnormalCodes
SessionDetails == {<<>>}

SessionNext ==
    \/ \E task \in SessionTasks : StartSession(task)
    \/ StopSession
    \/ \E i \in 1..Len(sockets) : OnOpen(i)
    \/ \E i \in 1..Len(sockets), code \in SessionCodes, failed \in BOOLEAN :
          OnClose(i, code, <<>>, failed)
    \/ ReconnectTimer
    \/ HeartbeatTick
    \/ \E i \in 1..Len(sockets), raw \in SessionRaws : OnMessage(i, raw)
    \/ \E path \in SessionPaths : Room /\ SelectFile(path)
    \/ \E k \in 1..Len(fetches), detail \in SessionDetails : FetchFail(k, detail)

SessionSpec == Init /\ [][SessionNext]_vars

\* LiveSpec is the connection manager followed to the end of every attempt:
\* the public calls and the successful opens are finitely many, while close
\* events and reconnect timeouts always run.  A transport that is connecting
\* or closing eventually fires open or close, and a scheduled reconnect
\* timeout eventually fires; an open transport may stay open for ever.
MaxSockets == 16

Settle(i) ==
    /\ i <= Len(sockets)
    /\ sockets[i].state \in {"CONNECTING", "CLOSING"}
    /\ \/ OnOpen(i)
       \/ \E code \in SessionCodes, failed \in BOOLEAN : onclose(i, code, <<>>, failed)

Drop(i) ==
    /\ i <= Len(sockets)
    /\ sockets[i].state = "OPEN"
    /\ \E code \in SessionCodes : onclose(i, code, <<>>, FALSE)

LiveNext ==
    \/ \E task \in SessionTasks : StartSession(task)
    \/ StopSession
    \/ Room /\ Unmount
    \/ \E i \in 1..MaxSockets : Settle(i)
    \/ \E i \in 1..MaxSockets : Drop(i)
    \/ TimerFires

LiveSpec ==
    /\ Init
    /\ [][LiveNext]_vars
    /\ \A i \in 1..MaxSockets : WF_vars(Settle(i))
    /\ WF_vars(TimerFires)

(***************************************************************************)
(* Properties.                                                             *)
(***************************************************************************)
Closed == {i \in 1..Len(sockets) : sockets[i].state = "CLOSED"}
Reconnected == {i \in 1..Len(sockets) : sockets[i].origin = "timer"}
Handshakes == {k \in 1..Len(sent) : sent[k].type = "handshake"}

\* the socket created by the public call at the head of socket i's reconnect chain
RECURSIVE Root(_)
Root(i) == IF sockets[i].origin = "user" THEN i ELSE Root(sockets[i].parent)

\* C1: in every reachable state at most one transport created by the client
\* is live, that is CONNECTING or OPEN.
C1_AtMostOneLive == Cardinality(LiveSockets) <= 1

\* C2: after stopSession(), until the next startSession or sendMessage call,
\* no step opens a transport and status stays idle.
C2_StopIsFinal ==
    [][(lastCall = "stop" /\ lastCall' = "stop")
          => (Len(sockets') = Len(sockets) /\ status' = "idle")]_vars

\* C3: a file read that completes when its path is no longer the active path
\* leaves ActiveFile unchanged, and once no read is outstanding ActiveFile.path
\* is the most recently selected path.
C3_LastSelectionWins ==
    [][/\ \A k \in Pending :
             (k \notin Pending' /\ fetches[k].path # activeFile.path)
                => activeFile' = activeFile
       /\ (fetches' # <<>> /\ Pending' = {})
             => activeFile'.path = fetches'[Len(fetches')].path]_vars

\* C4: whenever a public call appends a text to chat as a user message, the
\* same step either sends it as an action frame or opens a transport whose
\* handshake task it is.
C4_EveryTextDelivered ==
    [][(/\ Len(messages') = Len(messages) + 1
        /\ messages'[Len(messages')].type = "user")
          => LET t == messages'[Len(messages')].content
             IN \/ sent' = Append(sent, Frame(wsRef, "action", t))
                \/ /\ Len(sockets') = Len(sockets) + 1
                   /\ sockets'[Len(sockets')].task = t]_vars

\* C5: from a fresh session started once, with transports that never open,
\* each failed attempt up to the third schedules one reconnect; after the 4th
\* failure status is error with the connection-lost text, no reconnect is
\* pending and no 5th transport is ever created.
FailEveryTime ==
    /\ nCalls = 1
    /\ ~unmounted
    /\ sockets # <<>>
    /\ \A i \in 1..Len(sockets) : ~sockets[i].opened

Scheduled == Len(timers) + Cardinality(Reconnected)

C5_ReconnectBudget ==
    FailEveryTime =>
        /\ Len(sockets) <= 4
        /\ Scheduled = (IF Cardinality(Closed) < 3 THEN Cardinality(Closed) ELSE 3)
        /\ Cardinality(Closed) < 4 => status = "connecting"
        /\ Cardinality(Closed) = 4 =>
              (status = "error" /\ error = ConnLost /\ timers = <<>>)

C5_Witness ==
    FailEveryTime /\ Cardinality(Closed) = 4 /\ status = "error" /\ Scheduled = 3

\* C6: a close event with code 1000, 4001 or 4010 sets status to idle and
\* arms no reconnect, whatever the reconnect counter.
C6_NormalCloseEndsSession ==
    [][\A i \in 1..Len(sockets) :
          (/\ sockets[i].state # "CLOSED"
           /\ sockets'[i].state = "CLOSED"
           /\ sockets'[i].code \in {1000, 4001, 4010})
             => (/\ status' = "idle"
                 /\ timers' = timers
                 /\ reconnectCount' = reconnectCount)]_vars

C6_Witness ==
    /\ status = "idle"
    /\ reconnectCount > 0
    /\ timers = <<>>
    /\ \E i \in 1..Len(sockets) : sockets[i].code = 4010

\* C7 (as claimed): the handshake sent on a reconnected transport carries the
\* most recent non-empty text given to startSession or sendMessage.  Stated
\* for the runs in which that text did reach the backend before the closure.
C7_ReplaysLastText ==
    [][(/\ Len(sent') = Len(sent) + 1
        /\ sent'[Len(sent')].type = "handshake"
        /\ sockets[sent'[Len(sent')].ws].origin = "timer"
        /\ \E j \in 1..Len(sent) : sent[j].content = lastText)
          => sent'[Len(sent')].content = lastText]_vars

\* C7 (amended): the handshake sent on a reconnected transport carries the
\* task of the public call that opened the connection, at the head of the
\* reconnect chain; texts sent later as action frames are not replayed.
C7_ReplaysConnectTask ==
    \A k \in Handshakes :
        sockets[sent[k].ws].origin = "timer"
            => sent[k].content = sockets[Root(sent[k].ws)].task

C7_Witness ==
    \E k \in Handshakes :
        /\ sockets[sent[k].ws].origin = "timer"
        /\ sent[k].content = <<"a">>
        /\ lastText = <<"b">>
        /\ \E j \in 1..(k - 1) : sent[j].type = "action" /\ sent[j].content = <<"b">>

\* C8: every reconnect is armed and made with the deferred task of the
\* transport whose close armed it, and the handshake of the reconnected
\* transport carries that task.
C8_SameDeferredTask ==
    /\ \A k \in 1..Len(timers) : timers[k].task = sockets[timers[k].from].task
    /\ \A i \in Reconnected : sockets[i].task = sockets[sockets[i].parent].task
    /\ \A k \in Handshakes :
          sent[k].ws \in Reconnected
             => sent[k].content = sockets[sockets[sent[k].ws].parent].task

C8_Witness ==
    \E k \in Handshakes :
        /\ sent[k].ws \in Reconnected
        /\ sockets[sent[k].ws].parent \in Reconnected
        /\ sent[k].content = <<"a">>

\* C9 (as claimed): stopSession() leaves status idle, no heartbeat and no
\* tracked transport, and called when the session is already in that state
\* it changes nothing at all.
StopStep == nCalls' = nCalls + 1 /\ lastCall' = "stop"
AlreadyStopped == status = "idle" /\ ~heartbeatRef /\ wsRef = 0

C9_StopIdempotent ==
    [][StopStep =>
          /\ status' = "idle" /\ ~heartbeatRef' /\ wsRef' = 0
          /\ \A i \in 1..Len(sockets') : sockets'[i].closes <= 1
          /\ AlreadyStopped =>
                UNCHANGED <<connVars, projVars, fileVars>>]_vars

\* C9 (amended): as claimed, except that every stopSession() call, the
\* repeated one included, appends one "Session stopped" terminal-log line.
C9_StopIdempotentButLogged ==
    [][StopStep =>
          /\ status' = "idle" /\ ~heartbeatRef' /\ wsRef' = 0
          /\ \A i \in 1..Len(sockets') : sockets'[i].closes <= 1
          /\ terminalLogs' = pushLog(terminalLogs, "Session stopped", <<>>)
          /\ AlreadyStopped =>
                UNCHANGED <<connVars, messages, fileVars>>]_vars

C9_Witness ==
    /\ nCalls = 2
    /\ lastCall = "stop"
    /\ AlreadyStopped
    /\ Len(terminalLogs) >= 2
    /\ terminalLogs[Len(terminalLogs)].line = "Session stopped"
    /\ terminalLogs[Len(terminalLogs) - 1].line = "Session stopped"

\* C10: teardown cancels the heartbeat and untracks the transport, no
\* transport is ever closed twice, and after teardown no transport is opened.
C10_TeardownIsFinal ==
    [][/\ (~unmounted /\ unmounted') => (~heartbeatRef' /\ wsRef' = 0)
       /\ \A i \in 1..Len(sockets') : sockets'[i].closes <= 1
       /\ unmounted => Len(sockets') = Len(sockets)]_vars

\* C11: sendMessage called with an empty or whitespace-only text, in any
\* session state, appends no chat message, sends no frame, opens no transport
\* and leaves status unchanged.
Blank(text) == \A k \in 1..Len(text) : text[k] = " "

C11_BlankSendIsNoOp ==
    [][\A text \in SendTexts :
          (Blank(text) /\ SendMessage(text))
             => (/\ messages' = messages
                 /\ sent' = sent
                 /\ sockets' = sockets
                 /\ status' = status)]_vars

C11_Witness ==
    /\ lastCall = "send"
    /\ nCalls = 1
    /\ TransportOpen
    /\ status = "connected"
    /\ messages = <<>>
    /\ Len(sent) = 1

\* C14: every transport that reached the open state has exactly one handshake
\* frame, which is the first frame sent on it and carries the deferred task of
\* its connect call (empty if none); a transport that never opened has no
\* frame at all.
FramesOn(i) == {k \in 1..Len(sent) : sent[k].ws = i}

C14_OneHandshakeFirst ==
    \A i \in 1..Len(sockets) :
        IF sockets[i].opened
        THEN /\ Cardinality(FramesOn(i) \cap Handshakes) = 1
             /\ \E k \in FramesOn(i) :
                   /\ \A j \in FramesOn(i) : k <= j
                   /\ sent[k].type = "handshake"
                   /\ sent[k].content = sockets[i].task
        ELSE FramesOn(i) = {}

C14_Witness ==
    \E i \in 1..Len(sockets) :
        /\ sockets[i].opened
        /\ sockets[i].task = <<>>
        /\ \E k \in FramesOn(i) : sent[k].type = "ping"
        /\ \E k \in FramesOn(i) : sent[k].type = "action"

\* C12: every file_tree frame that carries a tree makes FileTree equal to
\* exactly that tree, whatever earlier trees and the flat file list hold, and
\* no other step changes FileTree: after the Nth such frame, with other frames
\* in between, FileTree is the Nth tree.
CarriesTree(raw) ==
    /\ IsJSON(raw)
    /\ JSONparse(raw).kind = "object"
    /\ JSONparse(raw).type = Str(<<"file_tree">>)
    /\ JSONparse(raw).tree.t = "array"

TreeFrames == {raw \in Raws : CarriesTree(raw)}

C12_TreeReplacedWholesale ==
    [][/\ \A raw \in TreeFrames :
             (\E i \in 1..Len(sockets) : OnMessage(i, raw))
                => fileTree' = JSONparse(raw).tree.nodes
       /\ fileTree' # fileTree
             => \E raw \in TreeFrames, i \in 1..Len(sockets) : OnMessage(i, raw)]_vars

C12_Witness ==
    /\ nFrames = 3
    /\ fileTree = TreeB
    /\ files # <<>>
    /\ Len(terminalLogs) >= 3
    /\ terminalLogs[Len(terminalLogs)] = Log("File tree updated", <<"1">>)
    /\ terminalLogs[Len(terminalLogs) - 1].line = "File changed"
    /\ terminalLogs[Len(terminalLogs) - 2] = Log("File tree updated", <<"3">>)

\* C13: a file_change frame with a single path and no list leaves the flat
\* file list unchanged when the path is already in it and otherwise appends
\* the path once at the end, keeping the order of the entries; either way it
\* appends exactly one terminal-log line.
SinglePath(raw) ==
    /\ IsJSON(raw)
    /\ JSONparse(raw).kind = "object"
    /\ JSONparse(raw).type = Str(<<"file_change">>)
    /\ JSONparse(raw).path.t = "string"
    /\ JSONparse(raw).path.s # <<>>
    /\ JSONparse(raw).files.t = "undefined"

PathFrames == {raw \in Raws : SinglePath(raw)}

C13_PathAddedOnce ==
    [][\A raw \in PathFrames :
          (\E i \in 1..Len(sockets) : OnMessage(i, raw))
             => LET path == JSONparse(raw).path.s
                IN /\ (\E k \in 1..Len(files) : files[k] = path) => files' = files
                   /\ (\A k \in 1..Len(files) : files[k] # path)
                         => files' = files \o <<path>>
                   /\ Len(terminalLogs') = Len(terminalLogs) + 1
                   /\ SubSeq(terminalLogs', 1, Len(terminalLogs)) = terminalLogs]_vars

C13_Witness ==
    /\ nFrames = 2
    /\ files = << <<"b.py">>, <<"a.py">> >>
    /\ Len(terminalLogs) >= 2
    /\ terminalLogs[Len(terminalLogs)] = Log("File changed", <<"a.py">>)
    /\ terminalLogs[Len(terminalLogs) - 1] = Log("File changed", <<"b.py", ", ", "a.py">>)

\* C15: a status frame whose status is ready (or mock_mode) and which carries
\* a session id s sets status to connected, appends exactly one system chat
\* message and one terminal-log line and makes s the session id; a status
\* frame with another status changes neither status nor chat; and every file
\* read selectFile issues carries the session id current at the call.
StatusFrame(raw) ==
    /\ IsJSON(raw)
    /\ JSONparse(raw).kind = "object"
    /\ JSONparse(raw).type = Str(<<"status">>)

DenotesReady(raw) == JSONparse(raw).status \in {Str(<<"ready">>), Str(<<"mock_mode">>)}

StatusFrames == {raw \in Raws : StatusFrame(raw)}

C15_ReadyAdoptsSession ==
    [][/\ \A raw \in StatusFrames :
             (\E i \in 1..Len(sockets) : OnMessage(i, raw))
                => IF DenotesReady(raw)
                   THEN /\ status' = "connected"
                        /\ Len(messages') = Len(messages) + 1
                        /\ SubSeq(messages', 1, Len(messages)) = messages
                        /\ messages'[Len(messages')].type = "system"
                        /\ Len(terminalLogs') = Len(terminalLogs) + 1
                        /\ SubSeq(terminalLogs', 1, Len(terminalLogs)) = terminalLogs
                        /\ JSONparse(raw).sessionId.t = "string"
                              => sessionIdRef' = JSONparse(raw).sessionId.s
                   ELSE status' = status /\ messages' = messages
       /\ \A path \in Paths :
             (path # <<>> /\ SelectFile(path))
                => /\ Len(fetches') = Len(fetches) + 1
                   /\ fetches'[Len(fetches')].sessionId = sessionIdRef]_vars

C15_Witness ==
    /\ nCalls = 1
    /\ nFrames = 1
    /\ status = "connected"
    /\ sessionIdRef = <<"s1">>
    /\ sent # <<>>
    /\ sent[1] = Frame(1, "handshake", <<"a">>)
    /\ messages = <<Msg("user", <<"a">>), Msg("system", <<"Agent is ready.">>)>>
    /\ terminalLogs[Len(terminalLogs)] = Log("[status]", <<"ready">>)
    /\ Len(fetches) = 2
    /\ fetches[1].sessionId = Null
    /\ fetches[2].sessionId = <<"s1">>

\* C16: an agent_event frame with a command c and a non-empty content t
\* appends to the terminal log "$ c" and then t, and appends t to chat as one
\* agent message exactly when its event kind contains Message or Think, and
\* nothing to chat otherwise.
CommandAndContent(raw) ==
    /\ IsJSON(raw)
    /\ JSONparse(raw).kind = "object"
    /\ JSONparse(raw).type = Str(<<"agent_event">>)
    /\ JSONparse(raw).command.t = "string" /\ JSONparse(raw).command.s # <<>>
    /\ JSONparse(raw).content.t = "string" /\ JSONparse(raw).content.s # <<>>

DenotesChat(raw) ==
    \E kind \in {JSONparse(raw).eventType, JSONparse(raw).event} :
        /\ kind.t = "string"
        /\ \E k \in 1..Len(kind.s) : kind.s[k] \in {"Message", "Think"}

CommandFrames == {raw \in Raws : CommandAndContent(raw)}

C16_CommandThenContent ==
    [][\A raw \in CommandFrames :
          (\E i \in 1..Len(sockets) : OnMessage(i, raw))
             => LET c == JSONparse(raw).command.s
                    t == JSONparse(raw).content.s
                IN /\ terminalLogs' = terminalLogs \o <<Log("$", c), Log("", t)>>
                   /\ messages' = IF DenotesChat(raw)
                                  THEN messages \o <<Msg("agent", t)>>
                                  ELSE messages]_vars

\* C17: an error frame with message m sets status to error and the error to
\* m, appends one system chat message ending in m and one terminal-log line
\* holding m, and leaves every transport, the tracked one and the heartbeat
\* timer as they are.
ErrorFrame(raw) ==
    /\ IsJSON(raw)
    /\ JSONparse(raw).kind = "object"
    /\ JSONparse(raw).type = Str(<<"error">>)
    /\ JSONparse(raw).message.t = "string" /\ JSONparse(raw).message.s # <<>>

EndsWith(text, m) ==
    Len(text) >= Len(m) /\ SubSeq(text, Len(text) - Len(m) + 1, Len(text)) = m

ErrorFrames == {raw \in Raws : ErrorFrame(raw)}

C17_ErrorKeepsTransport ==
    [][\A raw \in ErrorFrames :
          (\E i \in 1..Len(sockets) : OnMessage(i, raw))
             => LET m == JSONparse(raw).message.s
                IN /\ status' = "error"
                   /\ error' = m
                   /\ Len(messages') = Len(messages) + 1
                   /\ SubSeq(messages', 1, Len(messages)) = messages
                   /\ messages'[Len(messages')].type = "system"
                   /\ EndsWith(messages'[Len(messages')].content, m)
                   /\ Len(terminalLogs') = Len(terminalLogs) + 1
                   /\ SubSeq(terminalLogs', 1, Len(terminalLogs)) = terminalLogs
                   /\ EndsWith(terminalLogs'[Len(terminalLogs')].arg, m)
                   /\ sockets' = sockets
                   /\ wsRef' = wsRef
                   /\ heartbeatRef' = heartbeatRef
                   /\ sent' = sent]_vars

C17_Witness ==
    /\ status = "error"
    /\ error = <<"OOM">>
    /\ TransportOpen
    /\ heartbeatRef
    /\ nFrames = 2
    /\ Pings # {}
    /\ \E k \in 1..Len(messages) : messages[k] = Msg("system", <<"(!) ", "OOM">>)
    /\ Len(terminalLogs) >= 2
    /\ terminalLogs[Len(terminalLogs) - 1] = Log("(x)", <<"OOM">>)
    /\ terminalLogs[Len(terminalLogs)] = Log("Task completed", <<>>)

\* C18: dispatching an inbound payload never throws.
C18_DispatchNeverThrows == ~threw

\* C19: a payload that is not JSON, or that is JSON with a type outside the
\* dispatch table, appends exactly one terminal-log entry holding the raw
\* payload, changes no other projection and is not raised as an error.
DispatchTypes ==
    {Str(<<t>>) : t \in {"log", "observation", "message", "file_tree", "file_change",
                         "agent_event", "status", "complete", "error", "pong", "ack"}}

Fallback(raw) == ~IsJSON(raw) \/ JSONparse(raw).type \notin DispatchTypes

FallbackFrames == {raw \in Raws : Fallback(raw)}

C19_FallbackLogsRaw ==
    [][\A raw \in FallbackFrames :
          (\E i \in 1..Len(sockets) : OnMessage(i, raw))
             => (/\ terminalLogs' = terminalLogs \o <<Log("", raw)>>
                 /\ ~threw'
                 /\ UNCHANGED <<messages, files, fileTree, status, error,
                                sessionIdRef>>)]_vars

\* C20: startSession(task) with a non-empty task while the tracked transport
\* is open creates no transport and sends no handshake: it sends exactly one
\* action frame with the task, appends the task once to chat as a user message
\* and once to the terminal log.
C20_StartWhileOpenSends ==
    [][\A task \in StartTasks :
          (task # <<>> /\ TransportOpen /\ StartSession(task))
             => (/\ sockets' = sockets
                 /\ wsRef' = wsRef
                 /\ status' = status
                 /\ sent' = Append(sent, Frame(wsRef, "action", task))
                 /\ messages' = Append(messages, Msg("user", task))
                 /\ terminalLogs' = Append(terminalLogs, Log("->", task)))]_vars

C20_Witness ==
    /\ lastCall = "start"
    /\ nCalls = 2
    /\ Len(sockets) = 1
    /\ TransportOpen
    /\ sent = <<Frame(1, "handshake", <<>>), Frame(1, "action", <<"a">>)>>
    /\ messages = <<Msg("user", <<"a">>)>>
    /\ terminalLogs[Len(terminalLogs)] = Log("->", <<"a">>)

\* C21: whenever startSession is called while status is idle or error, status
\* becomes connecting and a new transport is opened whose deferred task is
\* the task given.
C21_StartFromIdleOrError ==
    [][\A task \in StartTasks :
          (status \in {"idle", "error"} /\ StartSession(task))
             => (/\ status' = "connecting"
                 /\ Len(sockets') = Len(sockets) + 1
                 /\ sockets'[Len(sockets')].state = "CONNECTING"
                 /\ sockets'[Len(sockets')].task = task
                 /\ wsRef' = Len(sockets'))]_vars

\* C25: for every path at most one file read is outstanding at any time.
C25_OneReadPerPath ==
    \A j, k \in Pending : fetches[j].path = fetches[k].path => j = k

\* C26: every chat message appended for a frame whose content field is absent
\* has the empty string as content, never an undefined content.
ContentAbsent(raw) ==
    /\ IsJSON(raw)
    /\ JSONparse(raw).kind = "object"
    /\ JSONparse(raw).content.t = "undefined"
    /\ JSONparse(raw).type \in {Str(<<"log">>), Str(<<"observation">>),
                                Str(<<"message">>), Str(<<"agent_event">>)}

NoContentFrames == {raw \in Raws : ContentAbsent(raw)}

C26_ChatContentIsString ==
    [][\A raw \in NoContentFrames :
          (\E i \in 1..Len(sockets) : OnMessage(i, raw))
             => \A k \in (Len(messages) + 1)..Len(messages') :
                   messages'[k].content = <<>>]_vars

\* C27: the heartbeat timer is active exactly when a transport of the session
\* is open (opened, not closed and not stopped), and every ping frame is sent
\* by a heartbeat tick on the tracked open transport, never by a public call.
SessionOpen(i) ==
    sockets[i].opened /\ sockets[i].state # "CLOSED" /\ sockets[i].closes = 0

C27_HeartbeatIffOpen ==
    /\ heartbeatRef <=> \E i \in 1..Len(sockets) : SessionOpen(i)
    /\ \A k \in Pings : sockets[sent[k].ws].opened

\* C29: while the hook is mounted, status connected implies that the session
\* tracks a transport that has opened and has not closed.
C29_ConnectedHasTransport ==
    (status = "connected" /\ ~unmounted)
        => (wsRef # 0 /\ sockets[wsRef].opened /\ sockets[wsRef].state # "CLOSED")

\* C30: every startSession call that opens a transport from status error,
\* after the reconnect budget was exhausted, starts with a full reconnect
\* budget (counter 0), and the reconnect counter stays within 0..3.
C30_FullBudgetOnStart ==
    [][/\ \A task \in StartTasks :
             (/\ status = "error"
              /\ StartSession(task)
              /\ Len(sockets') = Len(sockets) + 1)
                => reconnectCount' = 0
       /\ reconnectCount' \in 0..MAX_RECONNECTS]_vars

\* C22: every change of status follows an edge of the connection state
\* machine: idle or error to connecting, connecting to connected, connected to
\* connecting, connecting or connected to error, connecting or connected to
\* idle, and any status to idle by stopSession.
Edges ==
    {<<"idle", "connecting">>, <<"error", "connecting">>,
     <<"connecting", "connected">>, <<"connected", "connecting">>,
     <<"connecting", "error">>, <<"connected", "error">>,
     <<"connected", "idle">>, <<"connecting", "idle">>}

C22_StatusFollowsEdges ==
    [][status' # status
          => \/ <<status, status'>> \in Edges
             \/ status' = "idle" /\ StopStep]_vars

\* C23: the chat transcript and the terminal log are append-only: every step
\* leaves the previous sequence as a prefix of the new one.
IsPrefix(s, t) == Len(s) <= Len(t) /\ SubSeq(t, 1, Len(s)) = s

C23_AppendOnly ==
    [][IsPrefix(messages, messages') /\ IsPrefix(terminalLogs, terminalLogs')]_vars

C23_Witness ==
    /\ nFrames = 1
    /\ lastCall = "stop"
    /\ messages = <<Msg("user", <<"a">>), Msg("system", <<"Agent is ready.">>)>>
    /\ Len(terminalLogs) = 6
    /\ terminalLogs[1].line = "Connecting to AI Engine"
    /\ terminalLogs[2].line = "Connected"
    /\ terminalLogs[3].line = "Task sent"
    /\ terminalLogs[4].line = "[status]"
    /\ terminalLogs[5].line = "Failed to read"
    /\ terminalLogs[6].line = "Session stopped"

\* C24: when a file read of path p fails, ActiveFile becomes p with the error
\* placeholder and loading false if the active path is still p and is left
\* unchanged otherwise; status, the transports, the tracked transport, the
\* heartbeat and the reconnect counter do not change and nothing is thrown.
C24_FetchFailureIsLocal ==
    [][\A k \in 1..Len(fetches), detail \in Details :
          FetchFail(k, detail)
             => /\ activeFile' =
                      IF activeFile.present /\ activeFile.path = fetches[k].path
                      THEN [path |-> fetches[k].path,
                            content |-> <<"// Error loading file: ">>
                                           \o (IF detail # <<>> THEN detail
                                                                ELSE <<"HTTP 500">>),
                            loading |-> FALSE, present |-> TRUE]
                      ELSE activeFile
                /\ UNCHANGED <<status, error, sockets, wsRef, heartbeatRef,
                               reconnectCount, timers, sent, threw>>]_vars

C24_Witness ==
    /\ status = "connected"
    /\ TransportOpen
    /\ Len(fetches) = 2
    /\ fetches[1].path = <<"a.txt">> /\ fetches[1].done
    /\ fetches[2].path = <<"b.txt">> /\ ~fetches[2].done
    /\ activeFile.path = <<"b.txt">>
    /\ activeFile.loading
    /\ terminalLogs[Len(terminalLogs)].line = "Failed to read"

\* C28: stopSession() leaves the session id absent, and a file read issued
\* after a stop, before any later public call, carries no session id.
C28_SessionIdEndsWithSession ==
    [][/\ StopStep => sessionIdRef' = Null
       /\ \A path \in Paths :
             (lastCall = "stop" /\ path # <<>> /\ SelectFile(path))
                => fetches'[Len(fetches')].sessionId = Null]_vars

\* C31: the session never stays in connecting for ever: when every connecting
\* or closing transport eventually fires open or close and every scheduled
\* reconnect timeout eventually fires, and the public calls are finitely
\* many, status connecting leads to connected, idle or error.
C31_ConnectingEnds ==
    (status = "connecting") ~> (status \in {"connected", "idle", "error"})

C31_Witness ==
    /\ status = "error"
    /\ reconnectCount = MAX_RECONNECTS
    /\ Len(sockets) = MAX_RECONNECTS + 1
    /\ \A i \in 1..Len(sockets) : sockets[i].state = "CLOSED" /\ ~sockets[i].opened
    /\ timers = <<>>
    /\ nCalls = 1

====
